---------------------------- MODULE Spec2Model ----------------------------
(***************************************************************************)
(* Remeha Home climate entity (custom_components/remeha_home/climate.py).  *)
(*                                                                         *)
(* One RemehaHomeClimateEntity, bound to the climate zone climate_zone_id, *)
(* reads the coordinator's snapshot of its zone and executes the three     *)
(* command handlers async_set_temperature, async_set_hvac_mode and         *)
(* async_set_preset_mode.  A handler runs on the event loop up to its next *)
(* await in one step; every await of a vendor API call or of the           *)
(* coordinator's refresh is a step of its own that either returns or       *)
(* raises.  Handlers of the entity are serialized: a new one starts only   *)
(* when the previous one has returned or raised.                           *)
(*                                                                         *)
(* Python None is the string "None" where the value is otherwise a string, *)
(* and the empty tuple where it is otherwise a number (a number x is <<x>>)*)
(***************************************************************************)
EXTENDS Integers, Sequences, FiniteSets, TLC

VARIABLES
    appliances,          \* coordinator.data["appliances"]: appliance records
    climate_zone_id,     \* self.climate_zone_id
    data,                \* coordinator.get_by_id: zone id -> zone snapshot
    remote,              \* the vendor service's state of the zones, where tracked
    pc,                  \* where the running handler is suspended
    call,                \* the handler that runs or ran last, and its argument
    previous_hvac_mode,  \* local of async_set_preset_mode
    hvac_mode_at_call,   \* history: self.hvac_mode when the handler was entered
    trace,               \* history: what the handler did so far, in order
                         \* (both are dropped when a poll replaces the snapshots)
    result,              \* running, or how the last handler ended: returned | raised
    last,                \* history: the step that produced this state
    lookup,              \* the mode tables applied to drawn inputs (TablesSpec)
    reads                \* what the host read from the properties (ReadsSpec)

vars == <<appliances, climate_zone_id, data, remote, pc, call,
          previous_hvac_mode, hvac_mode_at_call, trace, result, last, lookup,
          reads>>

-----------------------------------------------------------------------------
(* Bounds of the model *)

MaxTemp == 2
MaxReads == 2

Temperatures == 1..MaxTemp
ProgramNumbers == {1, 2, 3, 4}
Zones == {"z1", "z2"}

None == "None"
NoNumber == <<>>
Some(x) == <<x>>

-----------------------------------------------------------------------------
(* Vocabulary *)

HVACMode_OFF == "off"
HVACMode_AUTO == "auto"
HVACMode_HEAT == "heat"
HVACMode_HEAT_COOL == "heat_cool"
HVACMode_COOL == "cool"
HVACModes == {HVACMode_OFF, HVACMode_AUTO, HVACMode_HEAT, HVACMode_HEAT_COOL,
              HVACMode_COOL}

HVACAction_OFF == "off"
HVACAction_HEATING == "heating"
HVACAction_COOLING == "cooling"
HVACAction_IDLE == "idle"

VendorModes == {"Scheduling", "TemporaryOverride", "Manual", "FrostProtection"}
ComfortDemands == {"ProducingHeat", "RequestingHeat", "ProducingCold",
                   "RequestingCold", "Idle", "Unknown"}
ApplianceTypes == {"HeatPump", "Boiler", "Hybrid"}
PresetInputs == {"clock_program_1", "clock_program_2", "clock_program_3",
                 "bogus"}

(* dict.get(key): the value, or None for a missing key *)
DictGet(d, k) == IF k \in DOMAIN d THEN d[k] ELSE None

-----------------------------------------------------------------------------
(* Mode-mapping tables *)

get_remeha_mode_to_hvac_mode(appliance_type) ==
    IF appliance_type = "HeatPump"
    THEN ("Scheduling" :> HVACMode_AUTO) @@ ("TemporaryOverride" :> HVACMode_AUTO)
         @@ ("Manual" :> HVACMode_HEAT_COOL) @@ ("FrostProtection" :> HVACMode_OFF)
    ELSE ("Scheduling" :> HVACMode_AUTO) @@ ("TemporaryOverride" :> HVACMode_AUTO)
         @@ ("Manual" :> HVACMode_HEAT) @@ ("FrostProtection" :> HVACMode_OFF)

(* Mutant: AUTO is mapped to TemporaryOverride *)
get_hvac_mode_to_remeha_mode_Override(appliance_type) ==
    IF appliance_type = "HeatPump"
    THEN (HVACMode_AUTO :> "TemporaryOverride") @@ (HVACMode_HEAT_COOL :> "Manual")
         @@ (HVACMode_OFF :> "FrostProtection")
    ELSE (HVACMode_AUTO :> "TemporaryOverride") @@ (HVACMode_HEAT :> "Manual")
         @@ (HVACMode_OFF :> "FrostProtection")

get_hvac_mode_to_remeha_mode(appliance_type) ==
    IF appliance_type = "HeatPump"
    THEN (HVACMode_AUTO :> "Scheduling") @@ (HVACMode_HEAT_COOL :> "Manual")
         @@ (HVACMode_OFF :> "FrostProtection")
    ELSE (HVACMode_AUTO :> "Scheduling") @@ (HVACMode_HEAT :> "Manual")
         @@ (HVACMode_OFF :> "FrostProtection")

(* Mutant: the two cold demands are mapped as the two heat demands *)
REMEHA_STATUS_TO_HVAC_ACTION_HeatOnly ==
    ("ProducingHeat" :> HVACAction_HEATING) @@ ("RequestingHeat" :> HVACAction_HEATING)
    @@ ("ProducingCold" :> HVACAction_HEATING) @@ ("RequestingCold" :> HVACAction_HEATING)
    @@ ("Idle" :> HVACAction_IDLE)

REMEHA_STATUS_TO_HVAC_ACTION ==
    ("ProducingHeat" :> HVACAction_HEATING) @@ ("RequestingHeat" :> HVACAction_HEATING)
    @@ ("ProducingCold" :> HVACAction_COOLING) @@ ("RequestingCold" :> HVACAction_COOLING)
    @@ ("Idle" :> HVACAction_IDLE)

PRESET_INDEX_TO_PRESET_MODE ==
    (1 :> "clock_program_1") @@ (2 :> "clock_program_2") @@ (3 :> "clock_program_3")

PRESET_MODE_TO_PRESET_INDEX ==
    ("clock_program_1" :> 1) @@ ("clock_program_2" :> 2) @@ ("clock_program_3" :> 3)

-----------------------------------------------------------------------------
(* Read side of the entity *)

SeqContains(s, x) == \E i \in 1..Len(s) : s[i] = x

(* Mutant: the first appliance is returned, whoever owns the zone *)
_get_appliance_data_First ==
    IF Len(appliances) = 0 THEN <<>> ELSE <<appliances[1]>>

(* The first appliance whose climateZones holds the zone (<<appliance>>), or
   None (<<>>) *)
_get_appliance_data ==
    LET owners == {i \in 1..Len(appliances) :
                       SeqContains(appliances[i].climateZones, climate_zone_id)}
    IN  IF owners = {} THEN <<>>
        ELSE <<appliances[CHOOSE i \in owners : \A j \in owners : i <= j]>>

_get_appliance_type ==
    LET appliance_data == _get_appliance_data
    IN  IF appliance_data # <<>>
        THEN (IF "applianceType" \in DOMAIN appliance_data[1]
              THEN appliance_data[1].applianceType ELSE "Boiler")
        ELSE "Boiler"

_data == data[climate_zone_id]

current_temperature == _data.roomTemperature

hvac_mode == DictGet(get_remeha_mode_to_hvac_mode(_get_appliance_type), _data.zoneMode)

(* Mutant: the set point is returned also when the mode is OFF *)
target_temperature_Always == Some(_data.setPoint)

target_temperature ==
    IF hvac_mode = HVACMode_OFF THEN NoNumber ELSE Some(_data.setPoint)

min_temp == _data.setPointMin

max_temp == _data.setPointMax

(* Mutant: HEAT is appended for every appliance type *)
hvac_modes_Both ==
    IF _get_appliance_type = "HeatPump"
    THEN <<HVACMode_OFF, HVACMode_AUTO, HVACMode_HEAT, HVACMode_HEAT_COOL>>
    ELSE <<HVACMode_OFF, HVACMode_AUTO, HVACMode_HEAT>>

hvac_modes ==
    IF _get_appliance_type = "HeatPump"
    THEN <<HVACMode_OFF, HVACMode_AUTO, HVACMode_HEAT_COOL>>
    ELSE <<HVACMode_OFF, HVACMode_AUTO, HVACMode_HEAT>>

hvac_action ==
    IF hvac_mode = HVACMode_OFF THEN HVACAction_OFF
    ELSE DictGet(REMEHA_STATUS_TO_HVAC_ACTION, _data.activeComfortDemand)

(* Mutant: a program number the table does not hold reads as the first preset *)
preset_mode_Coerced ==
    IF hvac_mode = HVACMode_OFF THEN "anti_frost"
    ELSE IF hvac_mode \in {HVACMode_HEAT, HVACMode_HEAT_COOL} THEN "manual"
    ELSE IF _data.activeHeatingClimateTimeProgramNumber \in DOMAIN PRESET_INDEX_TO_PRESET_MODE
         THEN PRESET_INDEX_TO_PRESET_MODE[_data.activeHeatingClimateTimeProgramNumber]
         ELSE "clock_program_1"

(* A lookup of a missing key raises KeyError *)
preset_mode ==
    IF hvac_mode = HVACMode_OFF THEN "anti_frost"
    ELSE IF hvac_mode \in {HVACMode_HEAT, HVACMode_HEAT_COOL} THEN "manual"
    ELSE IF _data.activeHeatingClimateTimeProgramNumber \in DOMAIN PRESET_INDEX_TO_PRESET_MODE
         THEN PRESET_INDEX_TO_PRESET_MODE[_data.activeHeatingClimateTimeProgramNumber]
         ELSE "KeyError"

preset_modes == <<"clock_program_1", "clock_program_2", "clock_program_3">>

-----------------------------------------------------------------------------
(* Collaborators: the vendor API client and the coordinator *)

Ev(c, z, a) == [call |-> c, zone |-> z, arg |-> a]

ApiCalls == {"async_set_temporary_override", "async_set_manual",
             "async_set_schedule", "async_set_off",
             "async_activate_heating_time_program"}

Refresh == Ev("async_request_refresh", climate_zone_id, <<>>)

(* An awaited call returned, or raised *)
Returned == Ev("returned", climate_zone_id, <<>>)
Raised == Ev("raised", climate_zone_id, <<>>)

-----------------------------------------------------------------------------
(* Write side of the entity *)

NoCall == [name |-> "none", hvac_mode |-> "", preset_mode |-> "", temperature |-> <<>>]

Return(tr) ==
    /\ trace' = tr
    /\ pc' = "idle"
    /\ result' = "returned"

Raise(tr) ==
    /\ trace' = tr
    /\ pc' = "idle"
    /\ result' = "raised"

(* Suspend in the await of the event that ends tr *)
Await(tr) ==
    /\ trace' = tr
    /\ pc' = tr[Len(tr)].call
    /\ result' = "running"

(* Mutant: the return for the mode OFF is missing, the refresh is requested *)
SetTemperatureAwaits_NoReturn(temperature) ==
    IF temperature # NoNumber
    THEN IF hvac_mode = HVACMode_AUTO
         THEN <<Ev("async_set_temporary_override", climate_zone_id, temperature)>>
         ELSE IF hvac_mode \in {HVACMode_HEAT, HVACMode_HEAT_COOL}
         THEN <<Ev("async_set_manual", climate_zone_id, temperature)>>
         ELSE <<Refresh>>
    ELSE <<>>

(* Mutant: the commands of AUTO and of HEAT, HEAT_COOL are exchanged *)
SetTemperatureAwaits_Swapped(temperature) ==
    IF temperature # NoNumber
    THEN IF hvac_mode = HVACMode_AUTO
         THEN <<Ev("async_set_manual", climate_zone_id, temperature)>>
         ELSE IF hvac_mode \in {HVACMode_HEAT, HVACMode_HEAT_COOL}
         THEN <<Ev("async_set_temporary_override", climate_zone_id, temperature)>>
         ELSE IF hvac_mode = HVACMode_OFF
         THEN <<>>
         ELSE <<Refresh>>
    ELSE <<>>

(* What async_set_temperature awaits first: <<>> where it returns at once *)
SetTemperatureAwaits(temperature) ==
    IF temperature # NoNumber
    THEN IF hvac_mode = HVACMode_AUTO
         THEN <<Ev("async_set_temporary_override", climate_zone_id, temperature)>>
         ELSE IF hvac_mode \in {HVACMode_HEAT, HVACMode_HEAT_COOL}
         THEN <<Ev("async_set_manual", climate_zone_id, temperature)>>
         ELSE IF hvac_mode = HVACMode_OFF
         THEN <<>>
         ELSE <<Refresh>>
    ELSE <<>>

(* async_set_temperature, up to its first await *)
async_set_temperature(temperature) ==
    /\ pc = "idle"
    /\ call' = [NoCall EXCEPT !.name = "async_set_temperature",
                              !.temperature = temperature]
    /\ hvac_mode_at_call' = hvac_mode
    /\ previous_hvac_mode' = None
    /\ last' = "call"
    /\ IF SetTemperatureAwaits(temperature) # <<>>
       THEN Await(SetTemperatureAwaits(temperature))
       ELSE Return(<<>>)
    /\ UNCHANGED <<appliances, climate_zone_id, data, remote, lookup>>

(* Mutant: the table is that of a boiler whatever the appliance *)
HvacModePatch_Boiler(requested) ==
    DictGet(get_hvac_mode_to_remeha_mode("Boiler"), requested)

(* The vendor mode async_set_hvac_mode writes into zoneMode *)
HvacModePatch(requested) ==
    DictGet(get_hvac_mode_to_remeha_mode(_get_appliance_type), requested)

(* Mutant: set_manual is sent the room temperature *)
HvacModeCommand_RoomTemperature(requested, zone) ==
    IF requested = HVACMode_AUTO
    THEN <<Ev("async_set_schedule", climate_zone_id,
              Some(zone.activeHeatingClimateTimeProgramNumber))>>
    ELSE IF requested \in {HVACMode_HEAT, HVACMode_HEAT_COOL}
    THEN <<Ev("async_set_manual", climate_zone_id, Some(zone.roomTemperature))>>
    ELSE IF requested = HVACMode_OFF
    THEN <<Ev("async_set_off", climate_zone_id, <<>>)>>
    ELSE <<>>

(* The command async_set_hvac_mode awaits for the requested mode, its argument
   read from the zone snapshot: <<>> where it raises NotImplementedError *)
HvacModeCommand(requested, zone) ==
    IF requested = HVACMode_AUTO
    THEN <<Ev("async_set_schedule", climate_zone_id,
              Some(zone.activeHeatingClimateTimeProgramNumber))>>
    ELSE IF requested \in {HVACMode_HEAT, HVACMode_HEAT_COOL}
    THEN <<Ev("async_set_manual", climate_zone_id, Some(zone.setPoint))>>
    ELSE IF requested = HVACMode_OFF
    THEN <<Ev("async_set_off", climate_zone_id, <<>>)>>
    ELSE <<>>

(* The optimistic patch and the re-render it signals *)
Patched ==
    <<Ev("patch", climate_zone_id, <<>>),
      Ev("async_write_ha_state", climate_zone_id, <<>>)>>

(* async_set_hvac_mode, up to its first await *)
async_set_hvac_mode(requested) ==
    /\ pc = "idle"
    /\ call' = [NoCall EXCEPT !.name = "async_set_hvac_mode", !.hvac_mode = requested]
    /\ hvac_mode_at_call' = hvac_mode
    /\ previous_hvac_mode' = None
    /\ last' = "call"
    /\ data' = [data EXCEPT ![climate_zone_id].zoneMode = HvacModePatch(requested)]
    /\ IF HvacModeCommand(requested, data'[climate_zone_id]) # <<>>
       THEN Await(Patched \o HvacModeCommand(requested, data'[climate_zone_id]))
       ELSE Raise(Patched \o <<Ev("NotImplementedError", climate_zone_id, <<>>)>>)
    /\ UNCHANGED <<appliances, climate_zone_id, remote, lookup>>

(* Mutant: the zone mode is patched before the preset is looked up *)
RejectPreset_Patching ==
    /\ Return(Patched \o <<Ev("_LOGGER.error", climate_zone_id, <<>>)>>)
    /\ previous_hvac_mode' = None
    /\ data' = [data EXCEPT ![climate_zone_id].zoneMode = HvacModePatch(HVACMode_AUTO)]

(* async_set_preset_mode with an unknown preset: logs the error and returns *)
RejectPreset ==
    /\ Return(<<Ev("_LOGGER.error", climate_zone_id, <<>>)>>)
    /\ previous_hvac_mode' = None
    /\ UNCHANGED data

(* Mutant: the patch is applied to every zone of the coordinator's data *)
ApplyPreset_AllZones(target_preset) ==
    /\ previous_hvac_mode' = hvac_mode
    /\ data' = [z \in Zones |->
                   [data[z] EXCEPT
                       !.zoneMode = HvacModePatch(HVACMode_AUTO),
                       !.activeHeatingClimateTimeProgramNumber = target_preset]]
    /\ Await(Patched \o <<Ev("async_activate_heating_time_program", climate_zone_id,
                             Some(target_preset))>>)

(* async_set_preset_mode with a known preset, up to its first await *)
ApplyPreset(target_preset) ==
    /\ previous_hvac_mode' = hvac_mode
    /\ data' = [data EXCEPT
           ![climate_zone_id].zoneMode = HvacModePatch(HVACMode_AUTO),
           ![climate_zone_id].activeHeatingClimateTimeProgramNumber = target_preset]
    /\ Await(Patched \o <<Ev("async_activate_heating_time_program", climate_zone_id,
                             Some(target_preset))>>)

(* async_set_preset_mode, up to its first await *)
async_set_preset_mode(preset) ==
    /\ pc = "idle"
    /\ call' = [NoCall EXCEPT !.name = "async_set_preset_mode", !.preset_mode = preset]
    /\ hvac_mode_at_call' = hvac_mode
    /\ last' = "call"
    /\ IF preset \notin DOMAIN PRESET_MODE_TO_PRESET_INDEX
       THEN RejectPreset
       ELSE ApplyPreset(PRESET_MODE_TO_PRESET_INDEX[preset])
    /\ UNCHANGED <<appliances, climate_zone_id, remote, lookup>>

(* Mutant: the mode is read after the patch, not before *)
SchedulesAfterProgram_AfterPatch ==
    /\ call.name = "async_set_preset_mode"
    /\ pc = "async_activate_heating_time_program"
    /\ hvac_mode # HVACMode_AUTO

(* Whether async_set_preset_mode goes on to async_set_schedule once the time
   program is activated *)
SchedulesAfterProgram ==
    /\ call.name = "async_set_preset_mode"
    /\ pc = "async_activate_heating_time_program"
    /\ previous_hvac_mode # HVACMode_AUTO

(* The vendor service's zone mode and program number after it executed the
   command e: set_schedule(n) gives Scheduling with program n, set_manual
   Manual, set_temporary_override TemporaryOverride, set_off FrostProtection,
   activate_heating_time_program(n) program n with the mode as it was.
   Where the vendor state is not tracked (<<>>) it stays so. *)
ApiEffect(r, e) ==
    IF r = <<>> THEN r
    ELSE CASE e.call = "async_set_schedule" ->
                  [r EXCEPT !.zoneMode = "Scheduling",
                            !.activeHeatingClimateTimeProgramNumber = e.arg[1]]
           [] e.call = "async_set_manual" ->
                  [r EXCEPT !.zoneMode = "Manual"]
           [] e.call = "async_set_temporary_override" ->
                  [r EXCEPT !.zoneMode = "TemporaryOverride"]
           [] e.call = "async_set_off" ->
                  [r EXCEPT !.zoneMode = "FrostProtection"]
           [] e.call = "async_activate_heating_time_program" ->
                  [r EXCEPT !.activeHeatingClimateTimeProgramNumber = e.arg[1]]

(* Mutant: the handler returns after its last command, the refresh forgotten *)
ApiReturn_NoRefresh ==
    /\ pc \in ApiCalls
    /\ last' = "api_return"
    /\ remote' = ApiEffect(remote, trace[Len(trace)])
    /\ IF SchedulesAfterProgram
       THEN Await(trace \o <<Returned,
                             Ev("async_set_schedule", climate_zone_id,
                                Some(PRESET_MODE_TO_PRESET_INDEX[call.preset_mode]))>>)
       ELSE Return(Append(trace, Returned))
    /\ UNCHANGED <<appliances, climate_zone_id, data, call,
                   previous_hvac_mode, hvac_mode_at_call, lookup>>

(* The awaited vendor command returns, the vendor service having executed it:
   the handler runs on to its next await *)
ApiReturn ==
    /\ pc \in ApiCalls
    /\ last' = "api_return"
    /\ remote' = ApiEffect(remote, trace[Len(trace)])
    /\ IF SchedulesAfterProgram
       THEN Await(trace \o <<Returned,
                             Ev("async_set_schedule", climate_zone_id,
                                Some(PRESET_MODE_TO_PRESET_INDEX[call.preset_mode]))>>)
       ELSE Await(trace \o <<Returned, Refresh>>)
    /\ UNCHANGED <<appliances, climate_zone_id, data, call,
                   previous_hvac_mode, hvac_mode_at_call, lookup>>

(* Mutant: the error of the vendor command is swallowed, the refresh requested *)
ApiRaise_Swallowed ==
    /\ pc \in ApiCalls
    /\ last' = "api_raise"
    /\ Await(trace \o <<Raised, Refresh>>)
    /\ UNCHANGED <<appliances, climate_zone_id, data, remote, call,
                   previous_hvac_mode, hvac_mode_at_call, lookup>>

(* Mutant: the error of the vendor command rolls the zone mode back *)
ApiRaise_RollingBack ==
    /\ pc \in ApiCalls
    /\ last' = "api_raise"
    /\ Raise(Append(trace, Raised))
    /\ data' = [data EXCEPT ![climate_zone_id].zoneMode = HvacModePatch(hvac_mode_at_call)]
    /\ UNCHANGED <<appliances, climate_zone_id, remote, call,
                   previous_hvac_mode, hvac_mode_at_call, lookup>>

(* The awaited vendor command raises: the handler ends with that error *)
ApiRaise ==
    /\ pc \in ApiCalls
    /\ last' = "api_raise"
    /\ Raise(Append(trace, Raised))
    /\ UNCHANGED <<appliances, climate_zone_id, data, remote, call,
                   previous_hvac_mode, hvac_mode_at_call, lookup>>

(* The awaited refresh completes with a successful poll, which replaces the
   snapshots by polled: the handler returns *)
RefreshReturn(polled) ==
    /\ pc = "async_request_refresh"
    /\ last' = "refresh_return"
    /\ data' = polled
    /\ Return(<<>>)
    /\ previous_hvac_mode' = None
    /\ hvac_mode_at_call' = None
    /\ UNCHANGED <<appliances, climate_zone_id, remote, call, lookup>>

(* The awaited refresh raises: the handler ends with that error *)
RefreshRaise ==
    /\ pc = "async_request_refresh"
    /\ last' = "refresh_raise"
    /\ Raise(Append(trace, Raised))
    /\ UNCHANGED <<appliances, climate_zone_id, data, remote, call,
                   previous_hvac_mode, hvac_mode_at_call, lookup>>

(* The coordinator's periodic poll, between two handlers.  (A handler reads no
   snapshot after its first await, so a poll that completes while a handler
   awaits leaves what a poll right after that handler leaves.) *)
Poll(polled) ==
    /\ pc = "idle"
    /\ last' = "poll"
    /\ data' = polled
    /\ trace' = <<>>
    /\ previous_hvac_mode' = None
    /\ hvac_mode_at_call' = None
    /\ UNCHANGED <<appliances, climate_zone_id, remote, pc, call, result, lookup>>

-----------------------------------------------------------------------------
(* Initial states: the snapshot of the first poll *)

(* The installations: the appliance collection and the zone of the entity.
   A boiler's zone; the zone of a heat pump that is not the first appliance;
   a zone of an appliance that carries no type, beside its sibling; a zone no
   appliance owns. *)
Installations ==
    { <<"z1", <<[applianceType |-> "Boiler", climateZones |-> <<"z1">>],
                [applianceType |-> "HeatPump", climateZones |-> <<"z2">>]>> >>,
      <<"z2", <<[applianceType |-> "Boiler", climateZones |-> <<"z1">>],
                [applianceType |-> "HeatPump", climateZones |-> <<"z2">>]>> >>,
      <<"z1", <<[climateZones |-> <<"z1", "z2">>]>> >>,
      <<"z1", <<[applianceType |-> "HeatPump", climateZones |-> <<"z2">>]>> >> }

(* The vendor states of the entity's zone: every zone mode with every comfort
   demand, and every zone mode with every set point and program number *)
Snapshots ==
    {s \in [roomTemperature : {1}, setPoint : Temperatures,
            setPointMin : {0}, setPointMax : {MaxTemp + 1},
            zoneMode : VendorModes, activeComfortDemand : ComfortDemands,
            activeHeatingClimateTimeProgramNumber : ProgramNumbers] :
        \/ s.activeComfortDemand = "Idle"
        \/ s.setPoint = 1 /\ s.activeHeatingClimateTimeProgramNumber = 1}

(* The vendor state of the zones the entity is not bound to: of values no
   handler writes *)
SiblingSnapshot ==
    [roomTemperature |-> 1, setPoint |-> MaxTemp,
     setPointMin |-> 0, setPointMax |-> MaxTemp + 1,
     zoneMode |-> "TemporaryOverride", activeComfortDemand |-> "Idle",
     activeHeatingClimateTimeProgramNumber |-> 4]

(* What a poll may bring: any vendor state of the entity's zone *)
PollResults == {[data EXCEPT ![climate_zone_id] = s] : s \in Snapshots}

NoLookup == [appliance_type |-> "", remeha_mode |-> "", hvac_mode |-> "",
             remeha_mode_back |-> "", hvac_mode_back |-> ""]

Idle ==
    /\ remote = <<>>
    /\ pc = "idle"
    /\ call = NoCall
    /\ previous_hvac_mode = None
    /\ hvac_mode_at_call = None
    /\ trace = <<>>
    /\ result = "returned"
    /\ last = "init"

(* No property was read *)
NoReads == [count |-> 0, values |-> <<>>]

Init ==
    /\ \E installation \in Installations :
           /\ climate_zone_id = installation[1]
           /\ appliances = installation[2]
    /\ \E s \in Snapshots :
           data = [z \in Zones |-> IF z = climate_zone_id THEN s ELSE SiblingSnapshot]
    /\ Idle
    /\ lookup = NoLookup
    /\ reads = NoReads

Next ==
    \/ \E temperature \in {NoNumber} \cup {Some(t) : t \in Temperatures} :
           async_set_temperature(temperature) /\ UNCHANGED reads
    \/ \E requested \in HVACModes : async_set_hvac_mode(requested) /\ UNCHANGED reads
    \/ \E preset \in PresetInputs : async_set_preset_mode(preset) /\ UNCHANGED reads
    \/ ApiReturn /\ UNCHANGED reads
    \/ ApiRaise /\ UNCHANGED reads
    \/ \E polled \in PollResults : RefreshReturn(polled) /\ UNCHANGED reads
    \/ RefreshRaise /\ UNCHANGED reads
    \/ \E polled \in PollResults : Poll(polled) /\ UNCHANGED reads

Spec == Init /\ [][Next]_vars

-----------------------------------------------------------------------------
(* The host reads the entity: every property, at any time, also while a
   handler is suspended in an await *)

(* What the properties return *)
Observe ==
    [current_temperature |-> current_temperature,
     target_temperature |-> target_temperature,
     min_temp |-> min_temp,
     max_temp |-> max_temp,
     hvac_mode |-> hvac_mode,
     hvac_modes |-> hvac_modes,
     hvac_action |-> hvac_action,
     preset_mode |-> preset_mode,
     preset_modes |-> preset_modes]

(* Mutant: reading the mode writes the vendor mode back normalised *)
Read_Normalising ==
    /\ reads.count < MaxReads
    /\ reads' = [count |-> reads.count + 1, values |-> <<Observe>>]
    /\ data' = [data EXCEPT ![climate_zone_id].zoneMode =
                    DictGet(get_hvac_mode_to_remeha_mode(_get_appliance_type), hvac_mode)]
    /\ UNCHANGED <<appliances, climate_zone_id, remote, pc, call,
                   previous_hvac_mode, hvac_mode_at_call, trace, result, last, lookup>>

(* The properties are read: none of them assigns anything *)
Read ==
    /\ reads.count < MaxReads
    /\ reads' = [count |-> reads.count + 1, values |-> <<Observe>>]
    /\ UNCHANGED <<appliances, climate_zone_id, data, remote, pc, call,
                   previous_hvac_mode, hvac_mode_at_call, trace, result, last, lookup>>

(* The steps of Spec, each forgetting what was read before it, and the reads *)
ReadsNext ==
    \/ \E temperature \in {NoNumber} \cup {Some(t) : t \in Temperatures} :
           async_set_temperature(temperature) /\ reads' = NoReads
    \/ \E requested \in HVACModes : async_set_hvac_mode(requested) /\ reads' = NoReads
    \/ \E preset \in PresetInputs : async_set_preset_mode(preset) /\ reads' = NoReads
    \/ ApiReturn /\ reads' = NoReads
    \/ ApiRaise /\ reads' = NoReads
    \/ \E polled \in PollResults : RefreshReturn(polled) /\ reads' = NoReads
    \/ RefreshRaise /\ reads' = NoReads
    \/ \E polled \in PollResults : Poll(polled) /\ reads' = NoReads
    \/ Read

ReadsSpec == Init /\ [][ReadsNext]_vars

-----------------------------------------------------------------------------
(* The vendor service tracked: its state of the entity's zone changes only
   when it executes a command of the entity, and a poll brings that state *)

(* The snapshots a poll brings: the vendor's zone mode and program number of
   the entity's zone *)
RemoteData ==
    [data EXCEPT
        ![climate_zone_id].zoneMode = remote.zoneMode,
        ![climate_zone_id].activeHeatingClimateTimeProgramNumber =
            remote.activeHeatingClimateTimeProgramNumber]

(* The state after construction: the snapshots are those of the first poll *)
RemoteInit ==
    /\ \E installation \in Installations :
           /\ climate_zone_id = installation[1]
           /\ appliances = installation[2]
    /\ \E s \in Snapshots :
           /\ data = [z \in Zones |-> IF z = climate_zone_id THEN s ELSE SiblingSnapshot]
           /\ remote = [zoneMode |-> s.zoneMode,
                        activeHeatingClimateTimeProgramNumber |->
                            s.activeHeatingClimateTimeProgramNumber]
    /\ pc = "idle"
    /\ call = NoCall
    /\ previous_hvac_mode = None
    /\ hvac_mode_at_call = None
    /\ trace = <<>>
    /\ result = "returned"
    /\ last = "init"
    /\ lookup = NoLookup
    /\ reads = NoReads

RemoteNext ==
    \/ \E temperature \in {NoNumber} \cup {Some(t) : t \in Temperatures} :
           async_set_temperature(temperature) /\ UNCHANGED reads
    \/ \E requested \in HVACModes : async_set_hvac_mode(requested) /\ UNCHANGED reads
    \/ \E preset \in PresetInputs : async_set_preset_mode(preset) /\ UNCHANGED reads
    \/ ApiReturn /\ UNCHANGED reads
    \/ ApiRaise /\ UNCHANGED reads
    \/ RefreshReturn(RemoteData) /\ UNCHANGED reads
    \/ RefreshRaise /\ UNCHANGED reads
    \/ Poll(RemoteData) /\ UNCHANGED reads

RemoteSpec == RemoteInit /\ [][RemoteNext]_vars

-----------------------------------------------------------------------------
(* The mode tables on their own: the inputs are drawn, ApplyTables maps the
   vendor mode to the abstract mode and back, and the abstract mode to the
   vendor mode and back *)

TableVendorModes == VendorModes \cup {"Unknown"}

ApplyTables ==
    /\ lookup.remeha_mode_back = ""
    /\ lookup' = [lookup EXCEPT
           !.remeha_mode_back =
               DictGet(get_hvac_mode_to_remeha_mode(lookup.appliance_type),
                       DictGet(get_remeha_mode_to_hvac_mode(lookup.appliance_type),
                               lookup.remeha_mode)),
           !.hvac_mode_back =
               DictGet(get_remeha_mode_to_hvac_mode(lookup.appliance_type),
                       DictGet(get_hvac_mode_to_remeha_mode(lookup.appliance_type),
                               lookup.hvac_mode))]
    /\ UNCHANGED <<appliances, climate_zone_id, data, remote, pc, call,
                   previous_hvac_mode, hvac_mode_at_call, trace, result, last>>

TablesInit ==
    /\ appliances = <<>>
    /\ climate_zone_id = "z1"
    /\ data = [z \in Zones |-> SiblingSnapshot]
    /\ Idle
    /\ lookup \in [appliance_type : ApplianceTypes, remeha_mode : TableVendorModes,
                   hvac_mode : HVACModes, remeha_mode_back : {""},
                   hvac_mode_back : {""}]
    /\ reads = NoReads

TablesNext == ApplyTables /\ UNCHANGED reads

TablesSpec == TablesInit /\ [][TablesNext]_vars

-----------------------------------------------------------------------------
(* Vocabulary of the properties *)

Range(seq) == {seq[i] : i \in DOMAIN seq}

(* The vendor commands of a trace, in the order they were issued *)
Commands(tr) == SelectSeq(tr, LAMBDA e : e.call \in ApiCalls)

Positions(tr, c) == {i \in DOMAIN tr : tr[i].call = c}

Count(tr, c) == Cardinality(Positions(tr, c))

(* This step enters a handler *)
IsCallStep == pc = "idle" /\ last' = "call"

ValidPreset == call.preset_mode \in {"clock_program_1", "clock_program_2", "clock_program_3"}

PresetIndex ==
    CASE call.preset_mode = "clock_program_1" -> 1
      [] call.preset_mode = "clock_program_2" -> 2
      [] call.preset_mode = "clock_program_3" -> 3

ActivateProgram ==
    Ev("async_activate_heating_time_program", climate_zone_id, Some(PresetIndex))

SetSchedule == Ev("async_set_schedule", climate_zone_id, Some(PresetIndex))

(* The handler named is running, or has ended and no poll came since *)
InHandler(name) == call.name = name /\ last \in {"call", "api_return", "api_raise", "refresh_raise"}

-----------------------------------------------------------------------------
(* C1 as stated: whenever async_set_preset_mode(p), p a valid preset of index
   n, has ended or awaits its refresh, the vendor commands it issued are
   activate_heating_time_program(zone, n), followed by set_schedule(zone, n)
   if and only if the HVAC mode derived before the patch was not AUTO. *)
C1_AsStated ==
    (InHandler("async_set_preset_mode") /\ ValidPreset
        /\ pc \in {"idle", "async_request_refresh"})
    => Commands(trace) = IF hvac_mode_at_call # HVACMode_AUTO
                         THEN <<ActivateProgram, SetSchedule>>
                         ELSE <<ActivateProgram>>

(* C1, amended: async_set_preset_mode(p), p a valid preset of index n, issues
   activate_heating_time_program(zone, n) first; once that command has
   returned without error it issues set_schedule(zone, n) if and only if the
   HVAC mode derived before the patch was not AUTO; while the command has not
   returned, or when it raised, activate_heating_time_program is the only
   command issued, as it is when the mode before the patch was AUTO. *)
C1_PresetCommands ==
    (InHandler("async_set_preset_mode") /\ ValidPreset)
    => Commands(trace) = IF Count(trace, "returned") > 0
                            /\ hvac_mode_at_call # HVACMode_AUTO
                         THEN <<ActivateProgram, SetSchedule>>
                         ELSE <<ActivateProgram>>

C1_Witness ==
    /\ InHandler("async_set_preset_mode")
    /\ call.preset_mode = "clock_program_2"
    /\ hvac_mode_at_call = HVACMode_HEAT
    /\ pc = "async_request_refresh"
    /\ Commands(trace) = <<ActivateProgram, SetSchedule>>

-----------------------------------------------------------------------------
(* The vendor mode and program number the optimistic patch of the handler
   that runs leaves in the snapshot *)
PatchIsVisible ==
    IF call.name = "async_set_hvac_mode"
    THEN _data.zoneMode =
             DictGet(get_hvac_mode_to_remeha_mode(_get_appliance_type), call.hvac_mode)
    ELSE /\ _data.zoneMode = "Scheduling"
         /\ _data.activeHeatingClimateTimeProgramNumber = PresetIndex

(* C2: in async_set_hvac_mode and async_set_preset_mode the optimistic patch
   and the re-render signal come before the first vendor command, and the
   patch is in the snapshot while the commands run; every vendor command
   comes before the refresh request; the refresh is requested at most once,
   after every other call of the handler, only when every vendor command has
   returned without error, and exactly once when the last command returned. *)
C2_Ordering ==
    (InHandler("async_set_hvac_mode") \/ (InHandler("async_set_preset_mode") /\ ValidPreset))
    => /\ \A i \in DOMAIN trace :
              trace[i].call \in ApiCalls
              => /\ \E j \in 1..(i - 1) : trace[j].call = "patch"
                 /\ \E j \in 1..(i - 1) : trace[j].call = "async_write_ha_state"
                 /\ PatchIsVisible
       /\ \A r \in Positions(trace, "async_request_refresh") :
              /\ \A i \in DOMAIN trace :
                     trace[i].call \in ApiCalls
                     => i < r /\ trace[i + 1] = Returned
              /\ \A i \in (r + 1)..Len(trace) : trace[i] = Raised
              /\ Count(trace, "raised") = 0 \/ trace[Len(trace)] = Raised
       /\ Count(trace, "async_request_refresh") <= 1
       /\ Count(trace, "async_request_refresh") = 1
              <=> (pc = "async_request_refresh" \/ last = "refresh_raise")
       /\ last = "api_return" /\ pc \notin ApiCalls
              => trace[Len(trace)] = Refresh
       /\ last = "api_raise" => Count(trace, "async_request_refresh") = 0

C2_Witness ==
    /\ InHandler("async_set_preset_mode")
    /\ pc = "async_request_refresh"
    /\ Len(Commands(trace)) = 2
    /\ trace[Len(trace)] = Refresh

-----------------------------------------------------------------------------
(* C3: async_set_preset_mode with an identifier that is none of the three
   presets returns without raising, issues no vendor command, requests no
   refresh and leaves every snapshot as it was. *)
C3_UnknownPreset ==
    [][ (IsCallStep /\ call'.name = "async_set_preset_mode"
            /\ call'.preset_mode \notin {"clock_program_1", "clock_program_2",
                                         "clock_program_3"})
        => /\ result' = "returned"
           /\ pc' = "idle"
           /\ Commands(trace') = <<>>
           /\ Count(trace', "async_request_refresh") = 0
           /\ Count(trace', "patch") = 0
           /\ data' = data ]_vars

C3_Witness ==
    /\ InHandler("async_set_preset_mode")
    /\ call.preset_mode = "bogus"
    /\ result = "returned"
    /\ hvac_mode = HVACMode_HEAT_COOL
    /\ _data.activeHeatingClimateTimeProgramNumber = 2

-----------------------------------------------------------------------------
(* C4: when a vendor command of async_set_hvac_mode or async_set_preset_mode
   raises, or the refresh raises, the handler ends with the error and the
   snapshot keeps the patched zoneMode and program number; the snapshots
   change only when a handler is entered or a poll succeeds. *)
C4_NoRollback ==
    /\ [][ (last' \in {"api_raise", "refresh_raise"}
               /\ call'.name \in {"async_set_hvac_mode", "async_set_preset_mode"})
           => /\ result' = "raised"
              /\ pc' = "idle"
              /\ data' = data
              /\ PatchIsVisible' ]_vars
    /\ [][ data' # data => last' \in {"call", "poll", "refresh_return"} ]_vars

C4_Witness ==
    /\ InHandler("async_set_hvac_mode")
    /\ last = "api_raise"
    /\ result = "raised"
    /\ call.hvac_mode = HVACMode_OFF
    /\ hvac_mode_at_call = HVACMode_HEAT
    /\ _data.zoneMode = "FrostProtection"

-----------------------------------------------------------------------------
(* C5: async_set_temperature entered while the derived HVAC mode is OFF
   returns at once: no vendor command, no refresh request, the snapshots
   unchanged, whatever the temperature. *)
C5_TemperatureWhileOff ==
    [][ (IsCallStep /\ call'.name = "async_set_temperature"
            /\ hvac_mode = HVACMode_OFF)
        => /\ trace' = <<>>
           /\ pc' = "idle"
           /\ result' = "returned"
           /\ data' = data ]_vars

C5_Witness ==
    /\ InHandler("async_set_temperature")
    /\ call.temperature = Some(2)
    /\ hvac_mode_at_call = HVACMode_OFF
    /\ _data.setPoint = 1
    /\ result = "returned"

-----------------------------------------------------------------------------
OverrideOrManual ==
    IF hvac_mode_at_call = HVACMode_AUTO
    THEN Ev("async_set_temporary_override", climate_zone_id, call.temperature)
    ELSE Ev("async_set_manual", climate_zone_id, call.temperature)

(* C6 as stated: whenever async_set_temperature(t), entered with a derived
   mode other than OFF, has ended or awaits its refresh, it has issued
   exactly one vendor command and after it exactly one refresh request. *)
C6_AsStated ==
    (InHandler("async_set_temperature") /\ call.temperature # NoNumber
        /\ hvac_mode_at_call # HVACMode_OFF
        /\ pc \in {"idle", "async_request_refresh"})
    => /\ Len(Commands(trace)) = 1
       /\ Count(trace, "async_request_refresh") = 1

(* C6, amended: async_set_temperature(t) entered with the derived mode AUTO,
   HEAT or HEAT_COOL issues exactly one vendor command, set_temporary_override
   (zone, t) when AUTO and set_manual(zone, t) otherwise, and requests the
   refresh exactly once, after it, if that command returns without error and
   not at all if it raises; entered with no derived mode (a zoneMode the
   table does not hold) it issues no vendor command and requests the refresh;
   in no case does the handler itself change a snapshot. *)
C6_SetTemperature ==
    /\ [] ( (InHandler("async_set_temperature") /\ call.temperature # NoNumber
                /\ hvac_mode_at_call # HVACMode_OFF)
            => IF hvac_mode_at_call \in {HVACMode_AUTO, HVACMode_HEAT, HVACMode_HEAT_COOL}
               THEN /\ Commands(trace) = <<OverrideOrManual>>
                    /\ trace[1] = OverrideOrManual
                    /\ Count(trace, "async_request_refresh")
                           = IF Count(trace, "returned") > 0 THEN 1 ELSE 0
               ELSE /\ Commands(trace) = <<>>
                    /\ trace[1] = Refresh
                    /\ Count(trace, "async_request_refresh") = 1 )
    /\ [][ (call'.name = "async_set_temperature"
               /\ last' \in {"call", "api_return", "api_raise", "refresh_raise"})
           => data' = data ]_vars

C6_Witness ==
    /\ InHandler("async_set_temperature")
    /\ hvac_mode_at_call = HVACMode_HEAT_COOL
    /\ call.temperature = Some(2)
    /\ _data.setPoint = 1
    /\ pc = "async_request_refresh"
    /\ trace = <<Ev("async_set_manual", climate_zone_id, Some(2)), Returned, Refresh>>

-----------------------------------------------------------------------------
(* C7: async_set_hvac_mode(m), m one of the zone's hvac_modes, issues exactly
   one vendor command: set_schedule(zone, n) for AUTO, n the snapshot's
   program number when the handler is entered; set_manual(zone, s) for HEAT
   and HEAT_COOL, s the snapshot's setPoint when the handler is entered;
   set_off(zone) for OFF. *)
C7_HvacModeCommand ==
    /\ [][ (IsCallStep /\ call'.name = "async_set_hvac_mode"
               /\ call'.hvac_mode \in Range(hvac_modes))
           => Commands(trace') =
                  CASE call'.hvac_mode = HVACMode_AUTO ->
                          <<Ev("async_set_schedule", climate_zone_id,
                               Some(_data.activeHeatingClimateTimeProgramNumber))>>
                    [] call'.hvac_mode \in {HVACMode_HEAT, HVACMode_HEAT_COOL} ->
                          <<Ev("async_set_manual", climate_zone_id, Some(_data.setPoint))>>
                    [] call'.hvac_mode = HVACMode_OFF ->
                          <<Ev("async_set_off", climate_zone_id, <<>>)>> ]_vars
    /\ [][ (call'.name = "async_set_hvac_mode"
               /\ last' \in {"api_return", "api_raise", "refresh_raise"})
           => Commands(trace') = Commands(trace) ]_vars

C7_Witness ==
    /\ InHandler("async_set_hvac_mode")
    /\ call.hvac_mode = HVACMode_HEAT
    /\ hvac_mode_at_call = HVACMode_OFF
    /\ _data.setPoint = 2
    /\ pc = "async_request_refresh"
    /\ Commands(trace) = <<Ev("async_set_manual", climate_zone_id, Some(2))>>

-----------------------------------------------------------------------------
(* C8 as stated: async_set_hvac_mode with a mode that is none of the zone's
   hvac_modes raises an error and issues no vendor command and no refresh
   request. *)
C8_AsStated ==
    (InHandler("async_set_hvac_mode") /\ last = "call"
        /\ call.hvac_mode \notin Range(hvac_modes))
    => /\ result = "raised"
       /\ Commands(trace) = <<>>
       /\ Count(trace, "async_request_refresh") = 0

-----------------------------------------------------------------------------
(* C9: in every reachable state the target temperature is None exactly when
   the derived HVAC mode is OFF, which is exactly when zoneMode is
   FrostProtection, and is the snapshot's setPoint otherwise; and when the
   mode is OFF the HVAC action is OFF and the preset mode is anti_frost,
   whatever setPoint, comfort demand and program number the snapshot holds. *)
C9_OffReads ==
    /\ hvac_mode = HVACMode_OFF <=> _data.zoneMode = "FrostProtection"
    /\ target_temperature = NoNumber <=> hvac_mode = HVACMode_OFF
    /\ hvac_mode # HVACMode_OFF => target_temperature = Some(_data.setPoint)
    /\ hvac_mode = HVACMode_OFF
           => hvac_action = HVACAction_OFF /\ preset_mode = "anti_frost"

C9_Witness ==
    /\ _get_appliance_type = "HeatPump"
    /\ _data.zoneMode = "FrostProtection"
    /\ _data.activeComfortDemand = "ProducingHeat"
    /\ _data.activeHeatingClimateTimeProgramNumber = 3
    /\ target_temperature = NoNumber
    /\ hvac_action = HVACAction_OFF
    /\ preset_mode = "anti_frost"

-----------------------------------------------------------------------------
(* C10: for every appliance type and every vendor mode M among Scheduling,
   Manual and FrostProtection, mapping M to the abstract mode and back gives
   M; for TemporaryOverride it gives Scheduling; and for every abstract mode
   A the abstract-to-vendor table of the type holds, mapping A to the vendor
   mode and back gives A. *)
C10_RoundTrip ==
    lookup.remeha_mode_back # ""
    => /\ lookup.remeha_mode \in {"Scheduling", "Manual", "FrostProtection"}
              => lookup.remeha_mode_back = lookup.remeha_mode
       /\ lookup.remeha_mode = "TemporaryOverride"
              => lookup.remeha_mode_back = "Scheduling"
       /\ lookup.hvac_mode \in DOMAIN get_hvac_mode_to_remeha_mode(lookup.appliance_type)
              => lookup.hvac_mode_back = lookup.hvac_mode
       /\ lookup.hvac_mode \in
              {HVACMode_OFF, HVACMode_AUTO,
               IF lookup.appliance_type = "HeatPump" THEN HVACMode_HEAT_COOL
                                                     ELSE HVACMode_HEAT}
              => lookup.hvac_mode_back = lookup.hvac_mode

C10_Witness ==
    /\ lookup.appliance_type = "Hybrid"
    /\ lookup.remeha_mode = "TemporaryOverride"
    /\ lookup.remeha_mode_back = "Scheduling"
    /\ lookup.hvac_mode = HVACMode_HEAT
    /\ lookup.hvac_mode_back = HVACMode_HEAT

-----------------------------------------------------------------------------
(* C11: in every state hvac_modes holds exactly OFF, AUTO and HEAT_COOL for a
   zone of a HeatPump appliance and exactly OFF, AUTO and HEAT for a zone of
   any other appliance, each once, and these are the modes the
   abstract-to-vendor table of the appliance type holds. *)
C11_HvacModes ==
    /\ Range(hvac_modes) = IF _get_appliance_type = "HeatPump"
                           THEN {HVACMode_OFF, HVACMode_AUTO, HVACMode_HEAT_COOL}
                           ELSE {HVACMode_OFF, HVACMode_AUTO, HVACMode_HEAT}
    /\ Len(hvac_modes) = 3
    /\ ~ ({HVACMode_HEAT, HVACMode_HEAT_COOL} \subseteq Range(hvac_modes))
    /\ Range(hvac_modes) = DOMAIN get_hvac_mode_to_remeha_mode(_get_appliance_type)

C11_Witness ==
    /\ _get_appliance_type = "HeatPump"
    /\ Range(hvac_modes) = {HVACMode_OFF, HVACMode_AUTO, HVACMode_HEAT_COOL}
    /\ _data.zoneMode = "Manual"
    /\ InHandler("async_set_hvac_mode")

-----------------------------------------------------------------------------
(* The preset identifier of the program number n *)
ClockProgram(n) ==
    CASE n = 1 -> "clock_program_1"
      [] n = 2 -> "clock_program_2"
      [] n = 3 -> "clock_program_3"

(* C12: the preset mode reads manual when the derived mode is HEAT or
   HEAT_COOL; when the derived mode is AUTO it reads clock_program_n for the
   snapshot's program number n in 1..3, and for any other n the read raises
   KeyError and returns no preset. *)
C12_PresetRead ==
    /\ hvac_mode \in {HVACMode_HEAT, HVACMode_HEAT_COOL} => preset_mode = "manual"
    /\ hvac_mode = HVACMode_AUTO
           => preset_mode =
                  IF _data.activeHeatingClimateTimeProgramNumber \in {1, 2, 3}
                  THEN ClockProgram(_data.activeHeatingClimateTimeProgramNumber)
                  ELSE "KeyError"

C12_Witness ==
    /\ hvac_mode = HVACMode_AUTO
    /\ _data.zoneMode = "TemporaryOverride"
    /\ _data.activeHeatingClimateTimeProgramNumber = 4
    /\ preset_mode = "KeyError"

-----------------------------------------------------------------------------
(* C13: when the derived mode is not OFF the HVAC action is decided by the
   comfort demand alone: HEATING for ProducingHeat and RequestingHeat, COOLING
   for ProducingCold and RequestingCold, IDLE for Idle, None for any other
   demand; a zone of an appliance that is no heat pump, with zoneMode Manual
   and the demand ProducingHeat, reads the mode HEAT and the action HEATING. *)
C13_HvacAction ==
    /\ hvac_mode # HVACMode_OFF
           => hvac_action =
                  CASE _data.activeComfortDemand \in {"ProducingHeat", "RequestingHeat"}
                           -> HVACAction_HEATING
                    [] _data.activeComfortDemand \in {"ProducingCold", "RequestingCold"}
                           -> HVACAction_COOLING
                    [] _data.activeComfortDemand = "Idle" -> HVACAction_IDLE
                    [] OTHER -> None
    /\ (_get_appliance_type # "HeatPump" /\ _data.zoneMode = "Manual"
            /\ _data.activeComfortDemand = "ProducingHeat")
           => hvac_mode = HVACMode_HEAT /\ hvac_action = HVACAction_HEATING

C13_Witness ==
    /\ _get_appliance_type = "Boiler"
    /\ _data.zoneMode = "Manual"
    /\ _data.activeComfortDemand = "ProducingHeat"
    /\ hvac_mode = HVACMode_HEAT
    /\ target_temperature = Some(_data.setPoint)
    /\ hvac_action = HVACAction_HEATING

-----------------------------------------------------------------------------
(* C14: a read of the properties changes neither the snapshots nor the
   appliance collection, and a read that follows another with no handler step
   and no poll between them returns for every property what that one
   returned. *)
C14_ReadsArePure ==
    [][ reads'.count = reads.count + 1
        => /\ data' = data
           /\ appliances' = appliances
           /\ reads.count > 0 => reads'.values = reads.values ]_vars

C14_Witness ==
    /\ reads.count = 2
    /\ pc = "async_set_schedule"
    /\ call.name = "async_set_hvac_mode"
    /\ reads.values[1].hvac_mode = HVACMode_AUTO
    /\ reads.values[1].preset_mode = "KeyError"

-----------------------------------------------------------------------------
(* C15 as stated: with the vendor's zone state changed only by the commands
   it executed, whenever async_set_preset_mode(p), p a valid preset, has
   returned without error, the vendor's zone mode is Scheduling or
   TemporaryOverride and its program number is the index of p. *)
C15_AsStated ==
    (call.name = "async_set_preset_mode" /\ ValidPreset
        /\ last = "refresh_return" /\ result = "returned")
    => /\ remote.zoneMode \in {"Scheduling", "TemporaryOverride"}
       /\ remote.activeHeatingClimateTimeProgramNumber = PresetIndex

-----------------------------------------------------------------------------
(* C16: from the optimistic patch until a poll replaces the snapshot, also
   when a command or the refresh of the handler raised, the derived HVAC mode
   reads m after async_set_hvac_mode(m), m one of the zone's hvac_modes, and
   after async_set_preset_mode(p), p a valid preset, the derived HVAC mode
   reads AUTO and the preset mode reads p. *)
C16_OptimisticView ==
    /\ (InHandler("async_set_hvac_mode") /\ call.hvac_mode \in Range(hvac_modes))
           => hvac_mode = call.hvac_mode
    /\ (InHandler("async_set_preset_mode") /\ ValidPreset)
           => hvac_mode = HVACMode_AUTO /\ preset_mode = call.preset_mode

C16_Witness ==
    /\ InHandler("async_set_hvac_mode")
    /\ _get_appliance_type = "HeatPump"
    /\ call.hvac_mode = HVACMode_HEAT_COOL
    /\ hvac_mode_at_call = HVACMode_OFF
    /\ last = "api_raise"
    /\ hvac_mode = HVACMode_HEAT_COOL

-----------------------------------------------------------------------------
(* This step ends a handler that returns without error *)
HandlerReturns ==
    /\ result' = "returned"
    /\ pc' = "idle"
    /\ IsCallStep \/ pc # "idle"

(* After a refresh that completed, the snapshot of the zone holds the
   vendor's zone mode and program number *)
SnapshotIsPolled ==
    [][ last' = "refresh_return"
        => /\ _data'.zoneMode = remote'.zoneMode
           /\ _data'.activeHeatingClimateTimeProgramNumber =
                  remote'.activeHeatingClimateTimeProgramNumber ]_vars

(* C17 as stated: a refresh that completed leaves the polled state in the
   snapshot, and every handler that returns without error ends with such a
   refresh. *)
C17_AsStated ==
    /\ SnapshotIsPolled
    /\ [][ HandlerReturns => last' = "refresh_return" ]_vars

(* C17, amended: a refresh that completed leaves the polled state in the
   snapshot; async_set_hvac_mode, and async_set_preset_mode with a valid
   preset, return without error only from a refresh that completed; a handler
   that returns without error and without a refresh is async_set_preset_mode
   with an unknown preset, or async_set_temperature entered with the mode OFF
   or without a temperature, and it has left the snapshots as they were. *)
C17_PollSupersedes ==
    /\ SnapshotIsPolled
    /\ [][ (HandlerReturns
               /\ \/ call'.name = "async_set_hvac_mode"
                  \/ call'.name = "async_set_preset_mode"
                         /\ call'.preset_mode \in DOMAIN PRESET_MODE_TO_PRESET_INDEX)
           => last' = "refresh_return" ]_vars
    /\ [][ (HandlerReturns /\ last' # "refresh_return")
           => /\ data' = data
              /\ \/ call'.name = "async_set_preset_mode"
                        /\ call'.preset_mode \notin DOMAIN PRESET_MODE_TO_PRESET_INDEX
                 \/ call'.name = "async_set_temperature"
                        /\ \/ call'.temperature = NoNumber
                           \/ hvac_mode = HVACMode_OFF ]_vars

C17_Witness ==
    /\ last = "refresh_return"
    /\ result = "returned"
    /\ call.name = "async_set_preset_mode"
    /\ call.preset_mode = "clock_program_3"
    /\ _data.zoneMode = "Manual"
    /\ remote.zoneMode = "Manual"
    /\ _data.activeHeatingClimateTimeProgramNumber = 3

-----------------------------------------------------------------------------
(* C18 as stated: while the patch of async_set_hvac_mode(m), m among OFF,
   AUTO, HEAT and HEAT_COOL, or of async_set_preset_mode(p), p a valid preset,
   is in the snapshot, zoneMode is Scheduling, Manual or FrostProtection. *)
C18_AsStated ==
    (\/ InHandler("async_set_hvac_mode")
           /\ call.hvac_mode \in {HVACMode_OFF, HVACMode_AUTO, HVACMode_HEAT,
                                  HVACMode_HEAT_COOL}
     \/ InHandler("async_set_preset_mode") /\ ValidPreset)
    => _data.zoneMode \in {"Scheduling", "Manual", "FrostProtection"}

-----------------------------------------------------------------------------
(* C19: a step of a handler of the entity leaves every snapshot of another
   zone as it was, and of its own zone's snapshot every field but zoneMode
   and activeHeatingClimateTimeProgramNumber; every vendor command of the
   handler carries the entity's zone identifier. *)
C19_Frame ==
    [][ last' \in {"call", "api_return", "api_raise", "refresh_raise"}
        => /\ DOMAIN data' = DOMAIN data
           /\ \A z \in Zones \ {climate_zone_id} : data'[z] = data[z]
           /\ DOMAIN _data' = DOMAIN _data
           /\ \A f \in DOMAIN _data \ {"zoneMode", "activeHeatingClimateTimeProgramNumber"} :
                  _data'[f] = _data[f]
           /\ \A i \in DOMAIN trace' :
                  trace'[i].call \in ApiCalls => trace'[i].zone = climate_zone_id ]_vars

C19_Witness ==
    /\ InHandler("async_set_preset_mode")
    /\ pc = "async_request_refresh"
    /\ Len(appliances) = 1
    /\ Len(appliances[1].climateZones) = 2
    /\ hvac_mode_at_call = HVACMode_HEAT
    /\ _data.zoneMode = "Scheduling"
    /\ _data.activeHeatingClimateTimeProgramNumber = 3
    /\ \A z \in Zones \ {climate_zone_id} : data[z] = SiblingSnapshot

-----------------------------------------------------------------------------
(* The appliances whose zone list holds the entity's zone *)
Owners ==
    {i \in DOMAIN appliances : climate_zone_id \in Range(appliances[i].climateZones)}

(* C20: when an appliance owns the zone and carries a type, the modes are read
   through the table of that type, so Manual reads HEAT_COOL in a zone of a
   HeatPump; when no appliance owns the zone, or its owner carries no type,
   they are read through the table of an appliance that is no heat pump, so
   Manual reads HEAT and hvac_modes holds OFF, AUTO and HEAT. *)
C20_ApplianceType ==
    /\ \A i \in Owners :
           "applianceType" \in DOMAIN appliances[i]
           => /\ _get_appliance_type = appliances[i].applianceType
              /\ hvac_mode = DictGet(get_remeha_mode_to_hvac_mode(appliances[i].applianceType),
                                     _data.zoneMode)
              /\ (appliances[i].applianceType = "HeatPump" /\ _data.zoneMode = "Manual")
                     => hvac_mode = HVACMode_HEAT_COOL
    /\ (\A i \in Owners : "applianceType" \notin DOMAIN appliances[i])
           => /\ _get_appliance_type # "HeatPump"
              /\ _data.zoneMode = "Manual" => hvac_mode = HVACMode_HEAT
              /\ Range(hvac_modes) = {HVACMode_OFF, HVACMode_AUTO, HVACMode_HEAT}

C20_Witness ==
    /\ Owners = {}
    /\ \E i \in DOMAIN appliances : appliances[i].applianceType = "HeatPump"
    /\ _data.zoneMode = "Manual"
    /\ hvac_mode = HVACMode_HEAT
    /\ Range(hvac_modes) = {HVACMode_OFF, HVACMode_AUTO, HVACMode_HEAT}

=============================================================================
